---------------------------- MODULE Spec2Model ----------------------------
(***************************************************************************)
(* A model of go_chirpy: the chirp validation and moderation pipeline, the *)
(* HTTP handlers of both builds of the server (main.go and the early       *)
(* build), the visit counter and the relational store behind them.         *)
(*                                                                         *)
(* A body is a sequence of characters.  A character is a one-element       *)
(* string; the characters that take more than one byte in UTF-8 are named  *)
(* ("e-acute", "E-acute", "nbsp") so that the module stays ASCII.          *)
(***************************************************************************)
EXTENDS Integers, Sequences, FiniteSets, TLC

VARIABLES
    build,           \* which main() runs: "main" (main.go) or "early"
    fileServerHits,  \* apiConfig.fileServerHits, an atomic.Int32
    users,           \* rows of table users
    chirps,          \* rows of table chirps
    now,             \* the wall clock, in nanoseconds
    resp,            \* the response of the request handled last
    assetHits,       \* history: asset requests served since the last Store(0)
    issued,          \* history: the chirps answered with 201, in order
    lastReset,       \* history: the last POST /admin/reset and the state it found
    body,            \* text pipeline: the body under test
    verr,            \* text pipeline: what validateChirp returned
    cleaned,         \* text pipeline: cleanChirpBody(body)
    recleaned,       \* text pipeline: cleanChirpBody(cleaned)
    pc               \* text pipeline: position

vars == <<build, fileServerHits, users, chirps, now, resp,
          assetHits, issued, lastReset, body, verr, cleaned, recleaned, pc>>

svcVars == <<build, fileServerHits, users, chirps, now, resp,
             assetHits, issued, lastReset>>

textVars == <<body, verr, cleaned, recleaned, pc>>

(***************************************************************************)
(* Characters                                                              *)
(***************************************************************************)

UpperLetters ==
    <<"A","B","C","D","E","F","G","H","I","J","K","L","M",
      "N","O","P","Q","R","S","T","U","V","W","X","Y","Z","E-acute">>

LowerLetters ==
    <<"a","b","c","d","e","f","g","h","i","j","k","l","m",
      "n","o","p","q","r","s","t","u","v","w","x","y","z","e-acute">>

\* unicode.IsSpace, as strings.Fields uses it
IsSpace(c) == c \in {" ", "\t", "\n", "\r", "nbsp"}

\* the number of bytes of a character in UTF-8: len() of a Go string counts these
ByteLen(c) == IF c \in {"e-acute", "E-acute", "nbsp"} THEN 2 ELSE 1

\* unicode.ToLower of one character
ToLowerChar(c) ==
    IF \E i \in DOMAIN UpperLetters : UpperLetters[i] = c
    THEN LowerLetters[CHOOSE i \in DOMAIN UpperLetters : UpperLetters[i] = c]
    ELSE c

\* strings.ToLower
ToLower(word) == [i \in DOMAIN word |-> ToLowerChar(word[i])]

\* len(body): the length of a Go string in bytes
GoLen(s) ==
    Cardinality({i \in DOMAIN s : ByteLen(s[i]) = 1})
    + 2 * Cardinality({i \in DOMAIN s : ByteLen(s[i]) = 2})

(***************************************************************************)
(* Validator                                                               *)
(***************************************************************************)

MaxChirpLength == 140

ErrTooLong == "chirp is too long"
ErrEmpty == "chirp body cannot be empty"
Nil == "nil"

validateChirp(b) ==
    IF GoLen(b) > MaxChirpLength THEN ErrTooLong
    ELSE IF GoLen(b) = 0 THEN ErrEmpty
    ELSE Nil

(***************************************************************************)
(* Moderator                                                               *)
(***************************************************************************)

profaneWords ==
    << <<"k","e","r","f","u","f","f","l","e">>,
       <<"s","h","a","r","b","e","r","t">>,
       <<"f","o","r","n","a","x">> >>

Mask == <<"*","*","*","*">>

Least(S) == CHOOSE m \in S : \A k \in S : m <= k

\* strings.Fields from index i on: skip the white space, then read the field
\* up to the next white space or the end of the string, and go on after it.
RECURSIVE FieldsFrom(_, _)
FieldsFrom(s, i) ==
    LET starts == {j \in i..Len(s) : ~IsSpace(s[j])}
    IN  IF starts = {} THEN <<>>
        ELSE LET fieldStart == Least(starts)
                 stops == {j \in fieldStart..Len(s) : IsSpace(s[j])}
                 fieldEnd == IF stops = {} THEN Len(s) ELSE Least(stops) - 1
             IN  <<SubSeq(s, fieldStart, fieldEnd)>> \o FieldsFrom(s, fieldEnd + 1)

Fields(s) == FieldsFrom(s, 1)

\* mutant: the comparison without strings.ToLower
MaskWordCaseSensitive(word) ==
    IF \E p \in DOMAIN profaneWords : word = profaneWords[p]
    THEN Mask
    ELSE word

\* the inner loop: the word is replaced when its lower-case form is a profane word
MaskWord(word) ==
    IF \E p \in DOMAIN profaneWords : ToLower(word) = profaneWords[p]
    THEN Mask
    ELSE word

\* mutant: the break leaves the outer loop, so only the first profane word
\* is masked
MaskWordsFirstOnly(words) ==
    LET hits == {i \in DOMAIN words : MaskWord(words[i]) # words[i]}
    IN  [i \in DOMAIN words |->
            IF hits # {} /\ i = Least(hits) THEN Mask ELSE words[i]]

\* the outer loop over words
MaskWords(words) == [i \in DOMAIN words |-> MaskWord(words[i])]

\* strings.Join(words, sep)
RECURSIVE JoinFrom(_, _, _)
JoinFrom(words, i, sep) ==
    IF i > Len(words) THEN <<>>
    ELSE IF i = Len(words) THEN words[i]
    ELSE words[i] \o sep \o JoinFrom(words, i + 1, sep)

Join(words, sep) == JoinFrom(words, 1, sep)

cleanChirpBody(b) == Join(MaskWords(Fields(b)), <<" ">>)

(***************************************************************************)
(* The bodies the text pipeline is run on                                  *)
(***************************************************************************)

MaxPieces == 3

Pieces ==
    { <<" ">>, <<"\t", "nbsp">>, <<"\n">>,
      <<"k","e","r","f","u","f","f","l","e">>,
      <<"S","h","a","r","b","e","r","t">>,
      <<"F","O","R","N","A","X">>,
      <<"f","o","r","n","a","x","!">>,
      <<"*","*","*","*">>,
      <<"H","i">>,
      <<"E-acute","t","e-acute">> }

RECURSIVE Concats(_)
Concats(n) ==
    IF n = 0 THEN { <<>> }
    ELSE LET shorter == Concats(n - 1)
         IN  shorter \cup { s \o p : s \in shorter, p \in Pieces }

Repeat(c, n) == [i \in 1..n |-> c]

LongLengths == {70, 71, 139, 140, 141}

LongBodies ==
    { Repeat(c, n) : c \in {"a", " ", "e-acute"}, n \in LongLengths }
    \cup { Repeat("a", n) \o <<" ">> \o <<"f","o","r","n","a","x">> : n \in {132, 133, 134} }

TextBodies == Concats(MaxPieces) \cup LongBodies

(***************************************************************************)
(* The text pipeline: validate, clean, clean again                         *)
(***************************************************************************)

Idle == "idle"

TextInit ==
    /\ body \in TextBodies
    /\ verr = Idle
    /\ cleaned = <<>>
    /\ recleaned = <<>>
    /\ pc = "validate"

TextValidate ==
    /\ pc = "validate"
    /\ verr' = validateChirp(body)
    /\ pc' = "clean"
    /\ UNCHANGED <<body, cleaned, recleaned>>

TextClean ==
    /\ pc = "clean"
    /\ cleaned' = cleanChirpBody(body)
    /\ pc' = "reclean"
    /\ UNCHANGED <<body, verr, recleaned>>

TextReclean ==
    /\ pc = "reclean"
    /\ recleaned' = cleanChirpBody(cleaned)
    /\ pc' = "done"
    /\ UNCHANGED <<body, verr, cleaned>>


TextNext == TextValidate \/ TextClean \/ TextReclean

(***************************************************************************)
(* The store: PostgreSQL behind database/sql and lib/pq                    *)
(***************************************************************************)

Null == "NULL"

NsPerMicro == 1000

\* A TIMESTAMP column keeps microseconds: the nanosecond value the driver
\* sends is rounded to the nearest microsecond (ties to even).
PgTimestamp(t) ==
    LET q == t \div NsPerMicro
        r == t % NsPerMicro
        up == \/ 2 * r > NsPerMicro
              \/ (2 * r = NsPerMicro /\ q % 2 = 1)
    IN  NsPerMicro * (IF up THEN q + 1 ELSE q)

\* the err a statement hands back to the handler
NilErr == "nil"
ErrConn == "connection refused"
ErrNoRows == "sql: no rows in result set"
ErrNotNull == "pq: null value violates not-null constraint"
ErrUnique == "pq: duplicate key value violates unique constraint"

\* a statement reaches the store or it does not
StoreAnswers == BOOLEAN

\* CREATE TABLE users: the constraint a new row breaks, if any.  id,
\* created_at and updated_at are bound to Go values and are never NULL; what
\* is left is NOT NULL on email and hashed_password, PRIMARY KEY and UNIQUE.
UsersInsertError(row, table) ==
    IF row.email = Null \/ row.hashed_password = Null THEN ErrNotNull
    ELSE IF \E u \in table : u.id = row.id \/ u.email = row.email THEN ErrUnique
    ELSE NilErr

\* INSERT INTO users (id, created_at, updated_at, email): hashed_password is
\* not among the columns and has no DEFAULT, so the new row holds NULL there.
UserRow(user) ==
    [ id |-> user.id,
      created_at |-> PgTimestamp(user.created_at),
      updated_at |-> PgTimestamp(user.updated_at),
      email |-> user.email,
      hashed_password |-> Null ]

\* INSERT INTO chirps (id, created_at, updated_at, body, user_id)
ChirpRow(chirp) ==
    [ id |-> chirp.id,
      created_at |-> PgTimestamp(chirp.created_at),
      updated_at |-> PgTimestamp(chirp.updated_at),
      body |-> chirp.body,
      user_id |-> chirp.user_id ]

\* saveChirp: the table after the INSERT
saveChirp(table, chirp) == table \cup { ChirpRow(chirp) }

\* SELECT ... FROM chirps ORDER BY created_at ASC: every order of the rows
\* that is ascending by created_at; rows with equal created_at come in an
\* order the store does not fix.
OrderedByCreatedAt(table) ==
    { s \in [1..Cardinality(table) -> table] :
        /\ \A i, j \in DOMAIN s : i # j => s[i] # s[j]
        /\ \A i, j \in DOMAIN s : i < j => s[i].created_at <= s[j].created_at }

(***************************************************************************)
(* Bounds and request inputs of the service                                *)
(***************************************************************************)

MaxHits == 1
MaxChirps == 2
MaxTicks == 1

StartNs == 400
TickNs == 300

Int32Max == 2147483647
Int32Min == -Int32Max - 1

\* atomic.Int32.Add of a positive delta: two's complement wrap-around
Int32Add(c, d) ==
    IF c > Int32Max - d
    THEN Int32Min + (c - (Int32Max - d) - 1)
    ELSE c + d

Emails == {"a@chirpy", "b@chirpy"}

\* enough identifiers for every row the bounds allow, and one to spare
UUIDs == 1..(MaxChirps + Cardinality(Emails) + 1)

\* uuid.New(): a value no stored row carries.  Identifiers are only compared
\* for equality, so the least unused one stands for any fresh one.
NewUUID == CHOOSE id \in UUIDs :
    /\ \A c \in chirps : c.id # id
    /\ \A u \in users : u.id # id
    /\ \A k \in UUIDs : (k < id) => \/ \E c \in chirps : c.id = k
                                   \/ \E u \in users : u.id = k

BadJSON == "malformed"

UserRefs == {"user-1"}

\* request bodies: empty, white space only, and a profane word behind a run
\* of white space that brings the body to the limit and one byte over it
ReqBodies ==
    { <<>>,
      <<" ", "\t">>,
      Repeat(" ", MaxChirpLength - 6) \o <<"F","O","R","N","A","X">>,
      Repeat(" ", MaxChirpLength - 5) \o <<"F","O","R","N","A","X">> }

\* the rows the users table may hold when the server starts: provisioned
\* with a password hash, which no handler of this server writes
SeedUsers ==
    { {},
      { [id |-> 0, created_at |-> 0, updated_at |-> 0,
         email |-> "a@chirpy", hashed_password |-> "hash"] } }

None == "none"

NsPerSecond == 1000000000

\* time.Time.Format(time.RFC3339): whole seconds, the fraction is dropped
Rfc3339(t) == NsPerSecond * (t \div NsPerSecond)

\* the wall clock may not pass this value
ClockEnd == StartNs + MaxTicks * TickNs

\* no reset yet, or one that lies two or more requests back
NoReset == [status |-> 0, hits |-> 0, nusers |-> 0, age |-> 2]

\* lastReset once one more request has been handled
Aged(r) == IF r.age = 0 THEN [r EXCEPT !.age = 1] ELSE NoReset

\* what a handler answered: arg is the request's email or chirp id, err the
\* error of its statement on the store (logged, never sent), payload the body
Response(route, status, arg, err, payload) ==
    [route |-> route, status |-> status, arg |-> arg, err |-> err,
     payload |-> payload]

\* respondWithError: a single-field record
ErrorPayload(message) == [error |-> message]

(***************************************************************************)
(* Construction: main() before ListenAndServe                              *)
(***************************************************************************)

TextOff ==
    /\ body = <<>>
    /\ verr = Idle
    /\ cleaned = <<>>
    /\ recleaned = <<>>
    /\ pc = "off"

Init ==
    /\ build \in {"main", "early"}
    /\ fileServerHits = 0
    /\ users \in SeedUsers
    /\ chirps = {}
    /\ now = StartNs
    /\ resp = Response("none", 0, None, NilErr, None)
    /\ assetHits = 0
    /\ issued = <<>>
    /\ lastReset = NoReset
    /\ TextOff

(***************************************************************************)
(* The environment: the clock                                              *)
(***************************************************************************)

Tick ==
    /\ now + TickNs <= ClockEnd
    /\ now' = now + TickNs
    /\ UNCHANGED <<build, fileServerHits, users, chirps, resp,
                   assetHits, issued, lastReset>>
    /\ UNCHANGED textVars

(***************************************************************************)
(* The visit counter                                                       *)
(***************************************************************************)

\* middlewareMetricsInc: the counter after cfg.fileServerHits.Add(1)
middlewareMetricsInc(hits) == Int32Add(hits, 1)

\* GET /app/assets/...: the file server behind the middleware
AssetRequest ==
    /\ fileServerHits < MaxHits
    /\ fileServerHits' = middlewareMetricsInc(fileServerHits)
    /\ assetHits' = assetHits + 1
    /\ resp' = Response("asset", 200, None, NilErr, None)
    /\ lastReset' = Aged(lastReset)
    /\ UNCHANGED <<build, users, chirps, now, issued>>
    /\ UNCHANGED textVars

\* /app: main.go registers the bare handler, the early build wraps it in
\* middlewareMetricsInc
WelcomeRequest ==
    /\ IF build = "early"
       THEN /\ fileServerHits < MaxHits
            /\ fileServerHits' = middlewareMetricsInc(fileServerHits)
       ELSE fileServerHits' = fileServerHits
    /\ resp' = Response("welcome", 200, None, NilErr, "Welcome to Chirpy")
    /\ lastReset' = Aged(lastReset)
    /\ UNCHANGED <<build, users, chirps, now, assetHits, issued>>
    /\ UNCHANGED textVars

metricsHandler ==
    /\ resp' = Response("metrics", 200, None, NilErr, fileServerHits)
    /\ lastReset' = Aged(lastReset)
    /\ UNCHANGED <<build, fileServerHits, users, chirps, now,
                   assetHits, issued>>
    /\ UNCHANGED textVars

healthHandler ==
    /\ resp' = Response("healthz", 200, None, NilErr, "OK")
    /\ lastReset' = Aged(lastReset)
    /\ UNCHANGED <<build, fileServerHits, users, chirps, now,
                   assetHits, issued>>
    /\ UNCHANGED textVars

\* mutant: Store(0) comes before the DELETE, so a failed reset zeroes too
resetHandlerStoreFirst ==
    /\ fileServerHits' = 0
    /\ assetHits' = 0
    /\ \E up \in StoreAnswers :
          IF up
          THEN /\ users' = {}
               /\ resp' = Response("reset", 200, None, NilErr, None)
          ELSE /\ resp' = Response("reset", 500, None, ErrConn, None)
               /\ UNCHANGED users
    /\ lastReset' = [status |-> resp'.status, hits |-> fileServerHits,
                     nusers |-> Cardinality(users), age |-> 0]
    /\ UNCHANGED <<build, chirps, now, issued>>
    /\ UNCHANGED textVars

\* mutant: the reset deletes the users and leaves the counter alone
resetHandlerNoStore ==
    /\ \E up \in StoreAnswers :
          IF up
          THEN /\ users' = {}
               /\ resp' = Response("reset", 200, None, NilErr, None)
          ELSE /\ resp' = Response("reset", 500, None, ErrConn, None)
               /\ UNCHANGED users
    /\ UNCHANGED <<fileServerHits, assetHits>>
    /\ lastReset' = [status |-> resp'.status, hits |-> fileServerHits,
                     nusers |-> Cardinality(users), age |-> 0]
    /\ UNCHANGED <<build, chirps, now, issued>>
    /\ UNCHANGED textVars

\* POST /admin/reset: DELETE FROM users; on an error answer 500 and return,
\* otherwise Store(0) and answer 200
resetHandler ==
    /\ \E up \in StoreAnswers :
          IF up
          THEN /\ users' = {}
               /\ fileServerHits' = 0
               /\ assetHits' = 0
               /\ resp' = Response("reset", 200, None, NilErr, None)
          ELSE /\ resp' = Response("reset", 500, None, ErrConn, None)
               /\ UNCHANGED <<users, fileServerHits, assetHits>>
    /\ lastReset' = [status |-> resp'.status, hits |-> fileServerHits,
                     nusers |-> Cardinality(users), age |-> 0]
    /\ UNCHANGED <<build, chirps, now, issued>>
    /\ UNCHANGED textVars

(***************************************************************************)
(* Users                                                                   *)
(***************************************************************************)

\* the User value createUserHandler builds: two readings of the clock
NewUser(email, id, created, updated) ==
    [id |-> id, created_at |-> created, updated_at |-> updated, email |-> email]

\* POST /api/users of main.go
createUserMain(email, later, up) ==
    LET user == NewUser(email, NewUUID, now, later)
        row == UserRow(user)
        err == IF up THEN UsersInsertError(row, users) ELSE ErrConn
    IN  /\ now' = later
        /\ IF err = NilErr
           THEN /\ users' = users \cup {row}
                /\ resp' = Response("createUser", 201, email, NilErr, user)
           ELSE /\ users' = users
                /\ resp' = Response("createUser", 500, email, err,
                                    ErrorPayload("Could not create user"))

\* POST /api/users of the early build: the answer is composed from the
\* request alone and no statement is sent to the store
createUserEarly(email) ==
    /\ resp' = Response("createUser", 201, email, NilErr,
                        NewUser(email, NewUUID, Rfc3339(now), Rfc3339(now)))
    /\ UNCHANGED <<users, now>>

createUserHandler ==
    /\ \/ /\ resp' = Response("createUser", 400, BadJSON, NilErr,
                              ErrorPayload(IF build = "main"
                                           THEN "Invalid request payload"
                                           ELSE "Invalid request"))
          /\ UNCHANGED <<users, now>>
       \/ \E email \in Emails :
            IF build = "main"
            THEN \E later \in {now, now + TickNs}, up \in StoreAnswers :
                    /\ later <= ClockEnd
                    /\ createUserMain(email, later, up)
            ELSE createUserEarly(email)
    /\ lastReset' = Aged(lastReset)
    /\ UNCHANGED <<build, fileServerHits, chirps, assetHits, issued>>
    /\ UNCHANGED textVars

(***************************************************************************)
(* Chirps (main.go only)                                                   *)
(***************************************************************************)

ChirpRequests == [body : ReqBodies, user_id : UserRefs]

\* mutant: the request's body is stored instead of cleanedBody
NewChirpUncleaned(req, id, created, updated) ==
    [ id |-> id,
      created_at |-> created,
      updated_at |-> updated,
      body |-> req.body,
      user_id |-> req.user_id ]

\* the Chirp value createChirpHandler builds from a validated request
NewChirp(req, id, created, updated) ==
    [ id |-> id,
      created_at |-> created,
      updated_at |-> updated,
      body |-> cleanChirpBody(req.body),
      user_id |-> req.user_id ]

createChirpHandler ==
    /\ build = "main"
    /\ \/ /\ resp' = Response("createChirp", 400, None, NilErr,
                              ErrorPayload("Invalid request payload"))
          /\ UNCHANGED <<chirps, issued, now>>
       \/ \E req \in ChirpRequests :
            IF validateChirp(req.body) # Nil
            THEN /\ resp' = Response("createChirp", 400, None, NilErr,
                                     ErrorPayload(validateChirp(req.body)))
                 /\ UNCHANGED <<chirps, issued, now>>
            ELSE \E later \in {now, now + TickNs}, up \in StoreAnswers :
                    LET chirp == NewChirp(req, NewUUID, now, later)
                    IN  /\ later <= ClockEnd
                        /\ Cardinality(chirps) < MaxChirps
                        /\ now' = later
                        /\ IF up
                           THEN /\ chirps' = saveChirp(chirps, chirp)
                                /\ issued' = Append(issued, chirp)
                                /\ resp' = Response("createChirp", 201, None,
                                                    NilErr, chirp)
                           ELSE /\ resp' = Response("createChirp", 500, None, ErrConn,
                                                    ErrorPayload("Could not save chirp"))
                                /\ UNCHANGED <<chirps, issued>>
    /\ lastReset' = Aged(lastReset)
    /\ UNCHANGED <<build, fileServerHits, users, assetHits>>
    /\ UNCHANGED textVars

\* GET /api/chirps
getChirpHandler ==
    /\ build = "main"
    /\ \/ \E rows \in OrderedByCreatedAt(chirps) :
            resp' = Response("listChirps", 200, None, NilErr, rows)
       \/ resp' = Response("listChirps", 500, None, ErrConn,
                           ErrorPayload("Could not retrieve chirps"))
    /\ lastReset' = Aged(lastReset)
    /\ UNCHANGED <<build, fileServerHits, users, chirps, now,
                   assetHits, issued>>
    /\ UNCHANGED textVars

\* QueryRow(... WHERE id = $1).Scan: the row, or the error
SelectChirp(table, chirpID, up) ==
    IF ~up THEN [err |-> ErrConn, row |-> None]
    ELSE IF \E c \in table : c.id = chirpID
    THEN [err |-> NilErr, row |-> CHOOSE c \in table : c.id = chirpID]
    ELSE [err |-> ErrNoRows, row |-> None]

\* GET /api/chirps/{chirpID}
getChirpByIDHandler ==
    /\ build = "main"
    /\ \E chirpID \in {c.id : c \in chirps} \cup {NewUUID}, up \in StoreAnswers :
          LET got == SelectChirp(chirps, chirpID, up)
          IN  IF got.err = ErrNoRows
              THEN resp' = Response("getChirp", 404, chirpID, got.err,
                                    ErrorPayload("Chirp not found"))
              ELSE IF got.err # NilErr
              THEN resp' = Response("getChirp", 500, chirpID, got.err,
                                    ErrorPayload("Could not retrieve chirp"))
              ELSE resp' = Response("getChirp", 200, chirpID, NilErr, got.row)
    /\ lastReset' = Aged(lastReset)
    /\ UNCHANGED <<build, fileServerHits, users, chirps, now,
                   assetHits, issued>>
    /\ UNCHANGED textVars

(***************************************************************************)
(* POST /api/validate_chirp (early build only)                             *)
(***************************************************************************)

\* A body over 140 bytes gets the 400 header and the error record, and, as
\* the branch does not return, the cleaned body after it.
validateChirpEarly ==
    /\ build = "early"
    /\ \/ resp' = Response("validateChirp", 500, None, NilErr,
                           ErrorPayload("Something went wrong"))
       \/ \E b \in ReqBodies :
            resp' = Response("validateChirp",
                             IF GoLen(b) > MaxChirpLength THEN 400 ELSE 200,
                             None, NilErr,
                             [ error |-> IF GoLen(b) > MaxChirpLength
                                         THEN "Chirp is too long" ELSE None,
                               cleaned_body |-> cleanChirpBody(b) ])
    /\ lastReset' = Aged(lastReset)
    /\ UNCHANGED <<build, fileServerHits, users, chirps, now,
                   assetHits, issued>>
    /\ UNCHANGED textVars

(***************************************************************************)
(* Specifications                                                          *)
(***************************************************************************)

Next ==
    \/ Tick
    \/ AssetRequest
    \/ WelcomeRequest
    \/ metricsHandler
    \/ healthHandler
    \/ resetHandler
    \/ createUserHandler
    \/ createChirpHandler
    \/ getChirpHandler
    \/ getChirpByIDHandler
    \/ validateChirpEarly

Spec == Init /\ [][Next]_vars

\* the text pipeline run on every body of TextBodies, the service at rest
TextSpecInit ==
    /\ build = "main"
    /\ fileServerHits = 0
    /\ users = {}
    /\ chirps = {}
    /\ now = StartNs
    /\ resp = Response("none", 0, None, NilErr, None)
    /\ assetHits = 0
    /\ issued = <<>>
    /\ lastReset = NoReset
    /\ TextInit

TextStep == TextNext /\ UNCHANGED svcVars

TextSpec == TextSpecInit /\ [][TextStep]_vars

(***************************************************************************)
(* Vocabulary of the properties: tokens, stated without the scan of Fields *)
(***************************************************************************)

\* the places where a white-space-delimited token of s begins
TokenStarts(s) ==
    {i \in DOMAIN s : ~IsSpace(s[i]) /\ (i = 1 \/ IsSpace(s[i - 1]))}

\* the token of s that begins at i
TokenAt(s, i) ==
    SubSeq(s, i, CHOOSE j \in i..Len(s) :
                    /\ \A k \in i..j : ~IsSpace(s[k])
                    /\ (j = Len(s) \/ IsSpace(s[j + 1])))

\* where the k-th token of s begins
NthStart(s, k) ==
    CHOOSE i \in TokenStarts(s) :
        Cardinality({j \in TokenStarts(s) : j < i}) = k - 1

TokenSet(s) == {TokenAt(s, i) : i \in TokenStarts(s)}

\* word equals a denylist word when letter case is ignored
IsProfane(word) ==
    \E p \in DOMAIN profaneWords :
        /\ Len(word) = Len(profaneWords[p])
        /\ \A i \in DOMAIN word : ToLowerChar(word[i]) = profaneWords[p][i]

OnlyWhiteSpace(s) == s # <<>> /\ \A i \in DOMAIN s : IsSpace(s[i])

\* tokens separated by exactly one space, none before the first or after the last
SingleSpaced(s) ==
    /\ \A i \in DOMAIN s : IsSpace(s[i]) => s[i] = " "
    /\ s # <<>> => (s[1] # " " /\ s[Len(s)] # " ")
    /\ \A i \in 1..(Len(s) - 1) : ~(s[i] = " " /\ s[i + 1] = " ")

\* out is body with every token kept in place, profane tokens masked
CleanedTokenwise(in, out) ==
    /\ SingleSpaced(out)
    /\ Cardinality(TokenStarts(out)) = Cardinality(TokenStarts(in))
    /\ \A k \in 1..Cardinality(TokenStarts(in)) :
          LET word == TokenAt(in, NthStart(in, k))
          IN  TokenAt(out, NthStart(out, k)) = IF IsProfane(word) THEN Mask ELSE word

(***************************************************************************)
(* Properties                                                              *)
(***************************************************************************)

\* C1: every chirp held in the store has a body of at most 140 characters
\* none of whose white-space-delimited tokens is a denylist word, letter
\* case ignored.
C1StoredChirpsModerated ==
    \A c \in chirps :
        /\ Len(c.body) <= MaxChirpLength
        /\ \A word \in TokenSet(c.body) : ~IsProfane(word)

\* C1 witness: a chirp is stored whose request body was at the limit and
\* held a profane word, now masked
C1Witness ==
    \E c \in chirps :
        /\ c.body = Mask

\* C2 as claimed: validateChirp accepts every body of 1 to 140 characters,
\* answers TooLong for more than 140 characters and Empty for none.
C2ValidateByCharacters ==
    pc # "validate" =>
        /\ (Len(body) >= 1 /\ Len(body) <= MaxChirpLength) => verr = Nil
        /\ Len(body) > MaxChirpLength => verr = ErrTooLong
        /\ Len(body) = 0 => verr = ErrEmpty

C4CleanIdempotent == pc = "done" => recleaned = cleaned

\* C4 witness: a body that cleaning changed, with two profane words
C4Witness ==
    /\ pc = "done"
    /\ body = <<"k","e","r","f","u","f","f","l","e","\n","F","O","R","N","A","X">>
    /\ cleaned = <<"*","*","*","*"," ","*","*","*","*">>
    /\ recleaned = cleaned

\* C5 as claimed, for a store that answers: a create-user request with a
\* well-formed payload is answered 201 with the user stored, or, when another
\* user holds the email, 500 with the store unchanged; and no two stored
\* users share an email.
C5CreateUserAsClaimed ==
    /\ (resp.route = "createUser" /\ resp.status # 400 /\ resp.err # ErrConn) =>
          \/ /\ resp.status = 201
             /\ \E u \in users : u.id = resp.payload.id /\ u.email = resp.arg
          \/ /\ resp.status = 500
             /\ \E u \in users : u.email = resp.arg
    /\ \A u, v \in users : u.email = v.email => u = v

\* C6 as claimed: once a reset has completed, with 200 or with 500, the
\* visit counter is 0.
C6ResetAlwaysZero == lastReset.age = 0 => fileServerHits = 0

\* C6 amended: once a reset has completed with 200 the visit counter is 0;
\* one that completed with 500 left the counter at the value it found.
C6ResetZeroOnSuccess ==
    lastReset.age = 0 =>
        /\ lastReset.status = 200 => fileServerHits = 0
        /\ lastReset.status = 500 => fileServerHits = lastReset.hits

\* C6 witness: a reset failed on the store with visits counted
C6Witness ==
    /\ lastReset.age = 0
    /\ lastReset.status = 500
    /\ lastReset.hits > 0
    /\ fileServerHits = lastReset.hits

\* C7: the metrics request that follows a reset answered 200, with no request
\* between them, reports 0 visits, and the store holds no user.
C7MetricsAfterReset ==
    (resp.route = "metrics" /\ lastReset.age = 1 /\ lastReset.status = 200) =>
        (resp.payload = 0 /\ users = {})

\* C7 witness: visits were counted and a user was stored before that reset
C7Witness ==
    /\ resp.route = "metrics"
    /\ lastReset.age = 1
    /\ lastReset.status = 200
    /\ lastReset.hits > 0
    /\ lastReset.nusers > 0
    /\ resp.payload = 0
    /\ users = {}

\* C8 as claimed: the visit counter is the number of asset requests served
\* since the last reset of the counter; no other route changes it.
C8CounterCountsAssets == fileServerHits = assetHits

\* C9 as claimed, for a store that answers: a get by the id of a chirp
\* answered 201 is answered 200 with that chirp as the create response gave
\* it; a get by an id no stored chirp has is answered 404.
C9GetReturnsCreated ==
    (resp.route = "getChirp" /\ resp.err # ErrConn) =>
        IF \E k \in DOMAIN issued : issued[k].id = resp.arg
        THEN /\ resp.status = 200
             /\ \E k \in DOMAIN issued : resp.payload = issued[k]
        ELSE resp.status = 404

\* C10 as claimed: a list answered 200 holds every stored chirp, and a chirp
\* created before another one comes before it, equal timestamps included.
C10ListInCreationOrder ==
    (resp.route = "listChirps" /\ resp.status = 200) =>
        /\ Len(resp.payload) = Cardinality(chirps)
        /\ \A a, b \in DOMAIN issued :
              a < b =>
                \E i, j \in DOMAIN resp.payload :
                    /\ i < j
                    /\ resp.payload[i].id = issued[a].id
                    /\ resp.payload[j].id = issued[b].id

=============================================================================
